---- MODULE Spec2Model ----
(***************************************************************************)
(* Model of app.py: the marker-based field extractors (extract_value,      *)
(* extract_track_url, extract_and_log_data) as operators over sequences of  *)
(* characters, and the /download request pipeline (download_track,          *)
(* fetch_and_process, download_and_set_metadata) as a state machine whose   *)
(* steps are the statements between two calls into the environment (HTTP    *)
(* GETs, the temporary file, the MP4 container).                            *)
(*                                                                         *)
(* A Python str is modelled as a sequence of one-character strings.         *)
(* Indices handed between operators are Python's (0-based, -1 = not found). *)
(***************************************************************************)
EXTENDS Integers, Sequences, FiniteSets, TLC

VARIABLES
    pc,             \* where the request handler stands
    req,            \* number of requests received so far
    url,            \* request.args.get('url')
    response_text,  \* text of the fetched page
    track_data,     \* the dict extract_and_log_data returned
    temp_files,     \* temporary files on disk, named by the request that made them
    disk,           \* content of this request's temporary file
    audio,          \* tags of the MP4 object held in memory
    result,         \* the pair download_and_set_metadata / fetch_and_process returned
    response,       \* what download_track answered
    log,            \* session.get calls issued by this request, in order
    errors,         \* logging.error records of this request, in order
    page_resp,      \* outcome of the page GET
    audio_resp,     \* outcome of the audio GET
    cover_resp,     \* outcome of the cover GET
    call_pc, call_text, call_start, call_end, call_ret
                    \* a direct call of one extractor: its arguments and result

vars == <<pc, req, url, response_text, track_data, temp_files, disk, audio,
          result, response, log, errors, page_resp, audio_resp, cover_resp,
          call_pc, call_text, call_start, call_end, call_ret>>

pipeline_vars == <<pc, req, url, response_text, track_data, temp_files, disk,
                   audio, result, response, log, errors, page_resp, audio_resp,
                   cover_resp>>

call_vars == <<call_pc, call_text, call_start, call_end, call_ret>>

----------------------------------------------------------------------------
(* Bounds of the model *)

MaxTextLen == 4
MaxMarkerLen == 2
MaxFrags == 3
MaxRequests == 2

----------------------------------------------------------------------------
(* Python objects other than the str of the extractors: records with a type *)

None == [type |-> "NoneType"]

Str(s) == [type |-> "str", value |-> s]

(* bool(v) *)
Truthy(v) ==
    CASE v.type = "NoneType" -> FALSE
      [] v.type = "str" -> Len(v.value) > 0
      [] OTHER -> TRUE

NoneNone == <<None, None>>

Raised == [type |-> "raised"]

HttpResponse(status, content_type) ==
    [type |-> "Response", status_code |-> status, content_type |-> content_type]

----------------------------------------------------------------------------
(* Python str values *)

Unknown == <<"U","n","k","n","o","w","n">>

SetMin(S) == CHOOSE x \in S : \A y \in S : x <= y

SetMax(S) == CHOOSE x \in S : \A y \in S : x >= y

(* the sequences over S of length 0..n *)
SeqsUpTo(S, n) == UNION {[1..k -> S] : k \in 0..n}

(* normalisation of a slice or search bound: negative counts from the end,  *)
(* then clamped to 0..len                                                   *)
PyIndex(n, i) ==
    IF i < 0 THEN (IF n + i < 0 THEN 0 ELSE n + i)
    ELSE (IF i > n THEN n ELSE i)

(* text[a:b] *)
PySlice(text, a, b) ==
    LET n == Len(text)
        lo == PyIndex(n, a)
        hi == PyIndex(n, b)
    IN IF lo >= hi THEN <<>> ELSE SubSeq(text, lo + 1, hi)

(* text.find(sub, start): lowest index >= start where sub occurs, or -1 *)
PyFind(text, sub, start) ==
    LET n == Len(text)
        m == Len(sub)
        st == IF start < 0 THEN (IF n + start < 0 THEN 0 ELSE n + start) ELSE start
        hits == {i \in st..(n - m) : SubSeq(text, i + 1, i + m) = sub}
    IN IF hits = {} THEN -1 ELSE SetMin(hits)

(* text.rfind(sub, start, end): highest index where sub occurs within       *)
(* text[start:end], or -1                                                   *)
PyRFind(text, sub, start, end) ==
    LET n == Len(text)
        m == Len(sub)
        lo == PyIndex(n, start)
        hi == PyIndex(n, end)
        hits == {i \in lo..(hi - m) : SubSeq(text, i + 1, i + m) = sub}
    IN IF hits = {} THEN -1 ELSE SetMax(hits)

(* sub in text *)
PyContains(text, sub) == PyFind(text, sub, 0) # -1

(* text.startswith(prefix) *)
PyStartsWith(text, prefix) ==
    /\ Len(prefix) <= Len(text)
    /\ SubSeq(text, 1, Len(prefix)) = prefix

(* text.strip(chars): drop every leading and trailing character in chars *)
PyStrip(text, chars) ==
    LET n == Len(text)
        keep == {i \in 1..n : text[i] \notin chars}
    IN IF keep = {} THEN <<>> ELSE SubSeq(text, SetMin(keep), SetMax(keep))

Whitespace == {" ", "\t", "\n", "\r", "\f"}

----------------------------------------------------------------------------
(* extract_value *)

(* extract_value with "or" for "and" in the test of line 21 *)
extract_value_nocheck(text, start_marker, end_marker) ==
    LET start_index == PyFind(text, start_marker, 0)
        end_index == PyFind(text, end_marker, start_index)
    IN IF start_index # -1 \/ end_index # -1
       THEN PySlice(text, start_index + Len(start_marker), end_index)
       ELSE Unknown

extract_value(text, start_marker, end_marker) ==
    LET start_index == PyFind(text, start_marker, 0)
        end_index == PyFind(text, end_marker, start_index)
    IN IF start_index # -1 /\ end_index # -1
       THEN PySlice(text, start_index + Len(start_marker), end_index)
       ELSE Unknown

----------------------------------------------------------------------------
(* json.loads(f'"{raw}"'): raw decoded as the body of a JSON string literal *)

(* the characters U+0020..U+007E, in code order; "<grave>" stands for the  *)
(* one character U+0060                                                     *)
Ascii ==
    <<" ","!","\"","#","$","%","&","'","(",")","*","+",",","-",".","/","0",
      "1","2","3","4","5","6","7","8","9",":",";","<","=",">","?","@","A",
      "B","C","D","E","F","G","H","I","J","K","L","M","N","O","P","Q","R",
      "S","T","U","V","W","X","Y","Z","[","\\","]","^","_","<grave>","a","b","c",
      "d","e","f","g","h","i","j","k","l","m","n","o","p","q","r","s","t",
      "u","v","w","x","y","z","{","|","}","~">>

(* characters below U+0020, which a strict JSON string may not contain raw; *)
(* "<bs>" stands for the one character U+0008                               *)
ControlChars == {"\t", "\n", "\r", "\f", "<bs>"}

HexDigits ==
    [c \in {"0","1","2","3","4","5","6","7","8","9",
            "a","b","c","d","e","f","A","B","C","D","E","F"} |->
        CASE c = "0" -> 0 [] c = "1" -> 1 [] c = "2" -> 2 [] c = "3" -> 3
          [] c = "4" -> 4 [] c = "5" -> 5 [] c = "6" -> 6 [] c = "7" -> 7
          [] c = "8" -> 8 [] c = "9" -> 9
          [] c \in {"a", "A"} -> 10 [] c \in {"b", "B"} -> 11
          [] c \in {"c", "C"} -> 12 [] c \in {"d", "D"} -> 13
          [] c \in {"e", "E"} -> 14 [] c \in {"f", "F"} -> 15]

(* the character with the given code point; outside printable ASCII and the *)
(* named control characters it is written U+<code>                          *)
CodePoint(n) ==
    IF n >= 32 /\ n <= 126 THEN Ascii[n - 31]
    ELSE CASE n = 8 -> "<bs>" [] n = 9 -> "\t" [] n = 10 -> "\n"
           [] n = 12 -> "\f" [] n = 13 -> "\r"
           [] OTHER -> "U+" \o ToString(n)

(* the one-character escapes of a JSON string *)
SimpleEscape ==
    [c \in {"\"", "\\", "/", "b", "f", "n", "r", "t"} |->
        CASE c = "b" -> "<bs>" [] c = "f" -> "\f" [] c = "n" -> "\n"
          [] c = "r" -> "\r" [] c = "t" -> "\t" [] OTHER -> c]

JsonError == [ok |-> FALSE, value |-> <<>>]

(* raw[i] is a backslash that opens an escape: the run of backslashes just  *)
(* before it has even length                                                *)
EscapeStart(raw, i) ==
    /\ raw[i] = "\\"
    /\ LET before == {k \in 1..(i - 1) : raw[k] # "\\"}
           run == IF before = {} THEN i - 1 ELSE i - 1 - SetMax(before)
       IN run % 2 = 0

(* raw[i] opens a well-formed \uXXXX escape *)
UnicodeEscape(raw, i) ==
    /\ i + 5 <= Len(raw)
    /\ raw[i + 1] = "u"
    /\ \A k \in (i + 2)..(i + 5) : raw[k] \in DOMAIN HexDigits

(* the decoder's scan of raw, the text between the two added quotes: the    *)
(* positions where a character or an escape begins, each giving one decoded *)
(* character; the scan fails on a raw quote (the literal closes early and   *)
(* data follows), on a raw control character, and on a malformed escape,    *)
(* among them a final backslash, which escapes the closing quote            *)
JsonScan(raw) ==
    LET n == Len(raw)
        starts == {i \in 1..n : EscapeStart(raw, i)}
        uni == {i \in starts : UnicodeEscape(raw, i)}
        covered == {i + 1 : i \in starts}
                   \cup UNION {(i + 2)..(i + 5) : i \in uni}
        tokens == (1..n) \ covered
        bad == {i \in tokens :
                   IF i \in starts
                   THEN \/ i = n
                        \/ /\ raw[i + 1] \notin DOMAIN SimpleEscape
                           /\ i \notin uni
                   ELSE raw[i] = "\"" \/ raw[i] \in ControlChars}
        decode(i) ==
            IF i \notin starts THEN raw[i]
            ELSE IF i \in uni
                 THEN CodePoint(4096 * HexDigits[raw[i + 2]]
                                + 256 * HexDigits[raw[i + 3]]
                                + 16 * HexDigits[raw[i + 4]]
                                + HexDigits[raw[i + 5]])
                 ELSE SimpleEscape[raw[i + 1]]
        nth(k) == CHOOSE i \in tokens : Cardinality({j \in tokens : j <= i}) = k
    IN IF bad # {} THEN JsonError
       ELSE [ok |-> TRUE,
             value |-> [k \in 1..Cardinality(tokens) |-> decode(nth(k))]]

json_loads_quoted(raw) == JsonScan(raw)

----------------------------------------------------------------------------
(* extract_track_url *)

MimeAnchor ==
    <<"m","i","m","e","_","t","y","p","e","=","a","u","d","i","o","_","m","p","4">>

HttpsColon == <<"h","t","t","p","s",":">>

SlashSlash == <<"/","/">>

(* extract_track_url without lines 42-43 *)
extract_track_url_noprefix(text) ==
    LET mime_index == PyFind(text, MimeAnchor, 0)
        start_index == PyRFind(text, <<":">>, 0, mime_index) + 1
        end_index == PyFind(text, <<",">>, mime_index)
        raw_url == PyStrip(PyStrip(PySlice(text, start_index, end_index),
                                   Whitespace), {"\""})
        decoded == json_loads_quoted(raw_url)
    IN IF mime_index = -1 THEN Unknown
       ELSE IF ~decoded.ok THEN Unknown
       ELSE decoded.value

extract_track_url(text) ==
    LET mime_index == PyFind(text, MimeAnchor, 0)
        start_index == PyRFind(text, <<":">>, 0, mime_index) + 1
        end_index == PyFind(text, <<",">>, mime_index)
        raw_url == PyStrip(PyStrip(PySlice(text, start_index, end_index),
                                   Whitespace), {"\""})
        decoded == json_loads_quoted(raw_url)
    IN IF mime_index = -1 THEN Unknown
       ELSE IF ~decoded.ok THEN Unknown
       ELSE IF PyStartsWith(decoded.value, SlashSlash)
            THEN HttpsColon \o decoded.value
            ELSE decoded.value

----------------------------------------------------------------------------
(* extract_and_log_data *)

TrackNameMarker == <<"\"","t","r","a","c","k","N","a","m","e","\"",":","\"">>

ArtistNameMarker == <<"\"","a","r","t","i","s","t","N","a","m","e","\"",":","\"">>

CoverUrlMarker == <<"\"","c","o","v","e","r","U","R","L","\"",":","\"">>

FieldEnd == <<"\"",",","\"">>

(* a dict is a function from its keys; {} is the function with no key *)
EmptyDict == [k \in {} |-> <<>>]

extract_and_log_data(text) ==
    LET track_name == extract_value(text, TrackNameMarker, FieldEnd)
        artist_name == extract_value(text, ArtistNameMarker, FieldEnd)
        cover == json_loads_quoted(extract_value(text, CoverUrlMarker, FieldEnd))
        track_url == extract_track_url(text)
    IN IF ~cover.ok THEN EmptyDict      \* json.loads raised: the except branch
       ELSE [track_name |-> track_name, artist_name |-> artist_name,
             cover_url |-> cover.value, track_url |-> track_url]

----------------------------------------------------------------------------
(* The environment: pages, requests, HTTP outcomes *)

PageOpen == <<"{">>

PageClose == <<"\"","e","n","d","\"",":","1","}">>

TrackFrags ==
    { <<>>,
      <<"\"","t","r","a","c","k","N","a","m","e","\"",":","\"","S","o","n","g","\"",",">> }

ArtistFrags ==
    { <<>>,
      <<"\"","a","r","t","i","s","t","N","a","m","e","\"",":","\"","A","r","t","i","s","t","\"",",">> }

(* no cover field; "https:\/\/img\/c.jpg"; "https:\x2F\x2Fimg", which is no *)
(* JSON string                                                              *)
CoverFrags ==
    { <<>>,
      <<"\"","c","o","v","e","r","U","R","L","\"",":","\"","h","t","t","p","s",":",
        "\\","/","\\","/","i","m","g","\\","/","c",".","j","p","g","\"",",">>,
      <<"\"","c","o","v","e","r","U","R","L","\"",":","\"","h","t","t","p","s",":",
        "\\","x","2","F","\\","x","2","F","i","m","g","\"",",">> }

(* no anchor; the anchor inside the URL; the anchor in a later field *)
TrackUrlFrags ==
    { <<>>,
      <<"\"","u","r","l","\"",":","\"","h","t","t","p","s",":","/","/","c","d","n",
        "/","a",".","m","4","a","?","m","i","m","e","_","t","y","p","e","=","a","u",
        "d","i","o","_","m","p","4","&","b","r","=","1","\"",",">>,
      <<"\"","s","r","c","\"",":","\"","/","/","c","d","n","/","a",".","m","4","a",
        "\"",",","\"","q","\"",":","\"","m","i","m","e","_","t","y","p","e","=","a",
        "u","d","i","o","_","m","p","4","\"",",">> }

Pages ==
    {PageOpen \o t \o a \o c \o u \o PageClose :
        t \in TrackFrags, a \in ArtistFrags, c \in CoverFrags, u \in TrackUrlFrags}

(* request.args.get('url'): absent, empty, a word, a URL *)
RequestUrls ==
    { None,
      Str(<<>>),
      Str(<<"d","o","u","y","i","n">>),
      Str(<<"h","t","t","p","s",":","/","/","m","u","s","i","c",".","d","o","u",
            "y","i","n",".","c","o","m","/","t">>) }

Statuses == {200, 204, 404}

AudioMp4 == <<"a","u","d","i","o","/","m","p","4">>

VideoMp4 == <<"v","i","d","e","o","/","m","p","4">>

(* Content-Type headers; <<>> is the default of headers.get *)
ContentTypes ==
    { AudioMp4,
      VideoMp4 \o <<";"," ","x">>,
      <<"t","e","x","t","/","h","t","m","l">>,
      <<>> }

(* session.get raises on a string with no http(s) scheme and host *)
IsUrl(s) ==
    \/ /\ PyStartsWith(s, <<"h","t","t","p",":","/","/">>)
       /\ Len(s) > 7
    \/ /\ PyStartsWith(s, <<"h","t","t","p","s",":","/","/">>)
       /\ Len(s) > 8

(* tags a downloaded file may already carry; the atoms (c)nam, (c)ART,     *)
(* (c)alb and covr are written nam, ART, alb and covr                       *)
PriorTags ==
    { EmptyDict,
      [nam |-> <<"o","l","d">>, alb |-> <<"L","P">>] }

CoverBytes == <<"J","P","E","G">>

MP4Cover(data) == [type |-> "MP4Cover", data |-> data, imageformat |-> "FORMAT_JPEG"]

(* d[k] = v on a dict *)
SetItem(d, k, v) == [x \in DOMAIN d \cup {k} |-> IF x = k THEN v ELSE d[x]]

----------------------------------------------------------------------------
(* The /download request: download_track, fetch_and_process,               *)
(* download_and_set_metadata                                                *)

PipelineIdle ==
    /\ pc = "idle"
    /\ req = 0
    /\ url = None
    /\ response_text = <<>>
    /\ track_data = EmptyDict
    /\ temp_files = {}
    /\ disk = None
    /\ audio = None
    /\ result = NoneNone
    /\ response = None
    /\ log = <<>>
    /\ errors = <<>>
    /\ page_resp = None
    /\ audio_resp = None
    /\ cover_resp = None

JsonError400 == [type |-> "json", status |-> 400, error |-> "No URL provided"]

JsonError500 == [type |-> "json", status |-> 500, error |-> "Failed to process the track"]

SendFile(buffer, filename) ==
    [type |-> "file", status |-> 200, mimetype |-> AudioMp4,
     body |-> buffer, download_name |-> filename, as_attachment |-> TRUE]

(* the handler's locals at entry *)
FreshLocals ==
    /\ response_text' = <<>>
    /\ track_data' = EmptyDict
    /\ disk' = None
    /\ audio' = None
    /\ result' = NoneNone
    /\ log' = <<>>
    /\ errors' = <<>>
    /\ page_resp' = None
    /\ audio_resp' = None
    /\ cover_resp' = None

(* download_track without the test of lines 171-172 *)
download_track_nocheck ==
    /\ pc \in {"idle", "responded"}
    /\ req < MaxRequests
    /\ \E u \in RequestUrls :
          /\ url' = u
          /\ response' = None
          /\ pc' = "fetch_page"
    /\ req' = req + 1
    /\ FreshLocals
    /\ UNCHANGED <<temp_files, call_vars>>

(* download_track, lines 170-174: read the parameter, answer 400 without it *)
download_track ==
    /\ pc \in {"idle", "responded"}
    /\ req < MaxRequests
    /\ \E u \in RequestUrls :
          /\ url' = u
          /\ IF ~Truthy(u)
             THEN /\ response' = JsonError400
                  /\ pc' = "responded"
             ELSE /\ response' = None
                  /\ pc' = "fetch_page"
    /\ req' = req + 1
    /\ FreshLocals
    /\ UNCHANGED <<temp_files, call_vars>>

(* fetch_and_process, lines 146-150 and 160-165: the page GET *)
fetch_page ==
    /\ pc = "fetch_page"
    /\ log' = Append(log, "page")
    /\ \/ /\ page_resp' = Raised
          /\ errors' = Append(errors, "An error occurred")
          /\ result' = NoneNone
          /\ pc' = "fp_returned"
          /\ UNCHANGED response_text
       \/ /\ url.type = "str"
          /\ IsUrl(url.value)
          /\ \E status \in Statuses :
                /\ page_resp' = HttpResponse(status, <<>>)
                /\ IF status = 200
                   THEN /\ \E text \in Pages : response_text' = text
                        /\ pc' = "extract"
                        /\ UNCHANGED <<errors, result>>
                   ELSE /\ errors' = Append(errors, "Failed to fetch the URL")
                        /\ result' = NoneNone
                        /\ pc' = "fp_returned"
                        /\ UNCHANGED response_text
    /\ UNCHANGED <<req, url, track_data, temp_files, disk, audio, response,
                   audio_resp, cover_resp, call_vars>>

(* fetch_and_process, line 152 *)
build_descriptor ==
    /\ pc = "extract"
    /\ track_data' = extract_and_log_data(response_text)
    /\ errors' = IF track_data' = EmptyDict
                 THEN Append(errors, "An error occurred while extracting data")
                 ELSE errors
    /\ pc' = "get_audio"
    /\ UNCHANGED <<req, url, response_text, temp_files, disk, audio, result,
                   response, log, page_resp, audio_resp, cover_resp, call_vars>>

(* an exception inside download_and_set_metadata: lines 140-142 *)
dm_except ==
    /\ errors' = Append(errors, "An error occurred while downloading or setting metadata")
    /\ result' = NoneNone
    /\ pc' = "dm_returned"

ContentTypeOk(content_type) ==
    PyContains(content_type, AudioMp4) \/ PyContains(content_type, VideoMp4)

(* get_audio without the status test of lines 91-93 *)
get_audio_unchecked ==
    /\ pc = "get_audio"
    /\ IF "track_url" \notin DOMAIN track_data
       THEN /\ dm_except
            /\ UNCHANGED <<log, audio_resp>>
       ELSE /\ log' = Append(log, "audio")
            /\ \/ /\ audio_resp' = Raised
                  /\ dm_except
               \/ /\ IsUrl(track_data.track_url)
                  /\ \E status \in Statuses : \E ct \in ContentTypes :
                        /\ audio_resp' = HttpResponse(status, ct)
                        /\ IF ~ContentTypeOk(ct)
                           THEN /\ errors' = Append(errors, "Unexpected Content-Type")
                                /\ result' = NoneNone
                                /\ pc' = "dm_returned"
                           ELSE /\ pc' = "create_temp"
                                /\ UNCHANGED <<errors, result>>
    /\ UNCHANGED <<req, url, response_text, track_data, temp_files, disk, audio,
                   response, page_resp, cover_resp, call_vars>>

(* get_audio with the temporary file of line 104 created before the GET *)
get_audio_tempfirst ==
    /\ pc = "get_audio"
    /\ IF "track_url" \notin DOMAIN track_data
       THEN /\ dm_except
            /\ UNCHANGED <<log, audio_resp, temp_files>>
       ELSE /\ temp_files' = temp_files \cup {req}
            /\ log' = Append(log, "audio")
            /\ \/ /\ audio_resp' = Raised
                  /\ dm_except
               \/ /\ IsUrl(track_data.track_url)
                  /\ \E status \in Statuses : \E ct \in ContentTypes :
                        /\ audio_resp' = HttpResponse(status, ct)
                        /\ IF status # 200 \/ ~ContentTypeOk(ct)
                           THEN /\ errors' = Append(errors, "Failed to download audio")
                                /\ result' = NoneNone
                                /\ pc' = "dm_returned"
                           ELSE /\ pc' = "create_temp"
                                /\ UNCHANGED <<errors, result>>
    /\ UNCHANGED <<req, url, response_text, track_data, disk, audio,
                   response, page_resp, cover_resp, call_vars>>

(* download_and_set_metadata, lines 82-101: the audio GET and its checks *)
get_audio ==
    /\ pc = "get_audio"
    /\ IF "track_url" \notin DOMAIN track_data
       THEN /\ dm_except                       \* KeyError at line 82
            /\ UNCHANGED <<log, audio_resp>>
       ELSE /\ log' = Append(log, "audio")
            /\ \/ /\ audio_resp' = Raised
                  /\ dm_except
               \/ /\ IsUrl(track_data.track_url)
                  /\ \E status \in Statuses : \E ct \in ContentTypes :
                        /\ audio_resp' = HttpResponse(status, ct)
                        /\ IF status # 200
                           THEN /\ errors' = Append(errors, "Failed to download audio")
                                /\ result' = NoneNone
                                /\ pc' = "dm_returned"
                           ELSE IF ~ContentTypeOk(ct)
                           THEN /\ errors' = Append(errors, "Unexpected Content-Type")
                                /\ result' = NoneNone
                                /\ pc' = "dm_returned"
                           ELSE /\ pc' = "create_temp"
                                /\ UNCHANGED <<errors, result>>
    /\ UNCHANGED <<req, url, response_text, track_data, temp_files, disk, audio,
                   response, page_resp, cover_resp, call_vars>>

(* line 104: tempfile.NamedTemporaryFile(delete=False) *)
create_temp ==
    /\ pc = "create_temp"
    /\ \/ /\ temp_files' = temp_files \cup {req}
          /\ disk' = [type |-> "file", written |-> FALSE, saved |-> FALSE,
                      tags |-> EmptyDict]
          /\ pc' = "write_temp"
          /\ UNCHANGED <<errors, result>>
       \/ /\ dm_except
          /\ UNCHANGED <<temp_files, disk>>
    /\ UNCHANGED <<req, url, response_text, track_data, audio, response, log,
                   page_resp, audio_resp, cover_resp, call_vars>>

(* lines 105-106: write the audio bytes and close *)
write_temp ==
    /\ pc = "write_temp"
    /\ \/ /\ \E prior \in PriorTags :
                disk' = [disk EXCEPT !.written = TRUE, !.tags = prior]
          /\ pc' = "get_cover"
          /\ UNCHANGED <<errors, result>>
       \/ /\ dm_except
          /\ UNCHANGED disk
    /\ UNCHANGED <<req, url, response_text, track_data, temp_files, audio,
                   response, log, page_resp, audio_resp, cover_resp, call_vars>>

(* get_cover without the os.unlink of line 113 *)
get_cover_keep ==
    /\ pc = "get_cover"
    /\ log' = Append(log, "cover")
    /\ \/ /\ cover_resp' = Raised
          /\ dm_except
          /\ UNCHANGED <<temp_files, disk>>
       \/ /\ IsUrl(track_data.cover_url)
          /\ \E status \in Statuses :
                /\ cover_resp' = HttpResponse(status, <<>>)
                /\ IF status # 200
                   THEN /\ errors' = Append(errors, "Failed to download cover image")
                        /\ result' = NoneNone
                        /\ pc' = "dm_returned"
                        /\ UNCHANGED <<temp_files, disk>>
                   ELSE /\ pc' = "parse_mp4"
                        /\ UNCHANGED <<errors, result, temp_files, disk>>
    /\ UNCHANGED <<req, url, response_text, track_data, audio, response,
                   page_resp, audio_resp, call_vars>>

(* lines 110-115: the cover GET *)
get_cover ==
    /\ pc = "get_cover"
    /\ log' = Append(log, "cover")
    /\ \/ /\ cover_resp' = Raised
          /\ dm_except
          /\ UNCHANGED <<temp_files, disk>>
       \/ /\ IsUrl(track_data.cover_url)
          /\ \E status \in Statuses :
                /\ cover_resp' = HttpResponse(status, <<>>)
                /\ IF status # 200
                   THEN /\ errors' = Append(errors, "Failed to download cover image")
                        /\ temp_files' = temp_files \ {req}     \* os.unlink
                        /\ disk' = None
                        /\ result' = NoneNone
                        /\ pc' = "dm_returned"
                   ELSE /\ pc' = "parse_mp4"
                        /\ UNCHANGED <<errors, result, temp_files, disk>>
    /\ UNCHANGED <<req, url, response_text, track_data, audio, response,
                   page_resp, audio_resp, call_vars>>

(* lines 118-123: MP4(temp_audio.name) *)
parse_mp4 ==
    /\ pc = "parse_mp4"
    /\ \/ /\ audio' = [type |-> "MP4", tags |-> disk.tags]
          /\ pc' = "set_title"
          /\ UNCHANGED <<errors, result, temp_files, disk>>
       \/ /\ errors' = Append(errors, "Failed to parse MP4 file")
          /\ temp_files' = temp_files \ {req}                   \* os.unlink
          /\ disk' = None
          /\ result' = NoneNone
          /\ pc' = "dm_returned"
          /\ UNCHANGED audio
    /\ UNCHANGED <<req, url, response_text, track_data, response, log,
                   page_resp, audio_resp, cover_resp, call_vars>>

TagUnchanged ==
    UNCHANGED <<req, url, response_text, track_data, temp_files, disk, result,
                response, log, errors, page_resp, audio_resp, cover_resp,
                call_vars>>

(* line 125 *)
set_title ==
    /\ pc = "set_title"
    /\ audio' = [audio EXCEPT !.tags = SetItem(@, "nam", track_data.track_name)]
    /\ pc' = "set_artist"
    /\ TagUnchanged

(* line 126 *)
set_artist ==
    /\ pc = "set_artist"
    /\ audio' = [audio EXCEPT !.tags = SetItem(@, "ART", track_data.artist_name)]
    /\ pc' = "set_cover"
    /\ TagUnchanged

(* the tagging without line 127 *)
set_cover_skip ==
    /\ pc = "set_cover"
    /\ audio' = audio
    /\ pc' = "save"
    /\ TagUnchanged

(* line 127 *)
set_cover ==
    /\ pc = "set_cover"
    /\ audio' = [audio EXCEPT !.tags = SetItem(@, "covr", <<MP4Cover(CoverBytes)>>)]
    /\ pc' = "save"
    /\ TagUnchanged

(* line 128: audio.save() *)
save ==
    /\ pc = "save"
    /\ \/ /\ disk' = [disk EXCEPT !.tags = audio.tags, !.saved = TRUE]
          /\ pc' = "read_back"
          /\ UNCHANGED <<errors, result>>
       \/ /\ dm_except
          /\ UNCHANGED disk
    /\ UNCHANGED <<req, url, response_text, track_data, temp_files, audio,
                   response, log, page_resp, audio_resp, cover_resp, call_vars>>

Filename(d) ==
    d.track_name \o <<" ","-"," ">> \o d.artist_name \o <<".","m","4","a">>

(* lines 131-138: read the file back, unlink it, return buffer and name *)
read_back ==
    /\ pc = "read_back"
    /\ \/ /\ result' = <<[type |-> "BytesIO", tags |-> disk.tags, saved |-> disk.saved],
                         Str(Filename(track_data))>>
          /\ temp_files' = temp_files \ {req}
          /\ disk' = None
          /\ pc' = "dm_returned"
          /\ UNCHANGED errors
       \/ /\ dm_except
          /\ UNCHANGED <<temp_files, disk>>
    /\ UNCHANGED <<req, url, response_text, track_data, audio, response, log,
                   page_resp, audio_resp, cover_resp, call_vars>>

(* fetch_and_process, lines 154-159 *)
fetch_and_process_return ==
    /\ pc = "dm_returned"
    /\ result' = IF Truthy(result[1]) THEN result ELSE NoneNone
    /\ pc' = "fp_returned"
    /\ UNCHANGED <<req, url, response_text, track_data, temp_files, disk, audio,
                   response, log, errors, page_resp, audio_resp, cover_resp,
                   call_vars>>

(* download_track, lines 176-185 *)
respond ==
    /\ pc = "fp_returned"
    /\ response' = IF Truthy(result[1]) /\ Truthy(result[2])
                   THEN SendFile(result[1], result[2].value)
                   ELSE JsonError500
    /\ pc' = "responded"
    /\ UNCHANGED <<req, url, response_text, track_data, temp_files, disk, audio,
                   result, log, errors, page_resp, audio_resp, cover_resp,
                   call_vars>>

NoCall ==
    /\ call_pc = "none"
    /\ call_text = None
    /\ call_start = None
    /\ call_end = None
    /\ call_ret = None

Init ==
    /\ PipelineIdle
    /\ NoCall

Next ==
    \/ download_track
    \/ fetch_page
    \/ build_descriptor
    \/ get_audio
    \/ create_temp
    \/ write_temp
    \/ get_cover
    \/ parse_mp4
    \/ set_title
    \/ set_artist
    \/ set_cover
    \/ save
    \/ read_back
    \/ fetch_and_process_return
    \/ respond

Spec == Init /\ [][Next]_vars

----------------------------------------------------------------------------
(* Calls of the pure functions on inputs drawn from bounded sets *)

Alphabet == {"a", "b"}

Texts == SeqsUpTo(Alphabet, MaxTextLen)

Markers == SeqsUpTo(Alphabet, MaxMarkerLen)

InitExtract ==
    /\ PipelineIdle
    /\ call_pc = "extract_value"
    /\ call_text \in Texts
    /\ call_start \in Markers
    /\ call_end \in Markers
    /\ call_ret = None

CallExtractValue ==
    /\ call_pc = "extract_value"
    /\ call_ret' = extract_value(call_text, call_start, call_end)
    /\ call_pc' = "returned"
    /\ UNCHANGED <<call_text, call_start, call_end, pipeline_vars>>

NextExtract == CallExtractValue

SpecExtract == InitExtract /\ [][NextExtract]_vars

(* pieces of page text around the track URL: an opened scheme-relative URL  *)
(* literal, its close, the anchor, and the characters the resolver looks at *)
UrlFrags ==
    { <<":","\"","/","/","h","/","a">>,
      <<"\"",",">>,
      MimeAnchor,
      <<":">>,
      <<",">>,
      <<"\\">>,
      <<" ">>,
      <<"?">> }

RECURSIVE Concat(_)
Concat(fs) == IF fs = <<>> THEN <<>> ELSE Head(fs) \o Concat(Tail(fs))

UrlTexts == {Concat(fs) : fs \in SeqsUpTo(UrlFrags, MaxFrags)}

InitTrackUrl ==
    /\ PipelineIdle
    /\ call_pc = "extract_track_url"
    /\ call_text \in UrlTexts
    /\ call_start = None
    /\ call_end = None
    /\ call_ret = None

CallExtractTrackUrl ==
    /\ call_pc = "extract_track_url"
    /\ call_ret' = extract_track_url(call_text)
    /\ call_pc' = "returned"
    /\ UNCHANGED <<call_text, call_start, call_end, pipeline_vars>>

NextTrackUrl == CallExtractTrackUrl

SpecTrackUrl == InitTrackUrl /\ [][NextTrackUrl]_vars

----------------------------------------------------------------------------
(* Properties of extract_value *)

(* the field extractor as the design states it: the end marker is looked    *)
(* for from the end of the matched start marker                              *)
RefExtract(text, start_marker, end_marker) ==
    LET s == PyFind(text, start_marker, 0)
        e == IF s = -1 THEN -1 ELSE PyFind(text, end_marker, s + Len(start_marker))
    IN IF s = -1 \/ e = -1 THEN Unknown
       ELSE PySlice(text, s + Len(start_marker), e)

(* C4: extract_value returns, for every text and marker pair, what the      *)
(* reference extractor returns: the text between the end of the first start *)
(* marker and the first end marker at or after that end, else "Unknown".     *)
C4_EqualsReference ==
    call_pc = "returned" =>
        call_ret = RefExtract(call_text, call_start, call_end)

(* C7: when the text lacks the start marker or lacks the end marker,        *)
(* extract_value returns "Unknown".                                          *)
C7_MissingMarkerUnknown ==
    (/\ call_pc = "returned"
     /\ \/ ~PyContains(call_text, call_start)
        \/ ~PyContains(call_text, call_end))
    => call_ret = Unknown

C7_Witness ==
    /\ call_pc = "returned"
    /\ ~PyContains(call_text, call_start)
    /\ PyContains(call_text, call_end)
    /\ Len(call_text) > 0
    /\ call_ret = Unknown

----------------------------------------------------------------------------
(* Properties of extract_track_url *)

(* text[i] with Python's 0-based index *)
At(text, i) == text[i + 1]

(* a quoted literal text[i+2 .. j) preceded by ':' at i and followed by ',' *)
(* at j+1, beginning with // and holding no quote                            *)
QuotedUrlAt(text, i, j) ==
    /\ i + 2 <= j
    /\ j + 1 < Len(text)
    /\ At(text, i) = ":"
    /\ At(text, i + 1) = "\""
    /\ At(text, j) = "\""
    /\ At(text, j + 1) = ","
    /\ PyStartsWith(PySlice(text, i + 2, j), SlashSlash)
    /\ \A k \in (i + 2)..(j - 1) : At(text, k) # "\""

AnchorInsideLiteral(text, i, j) ==
    LET m == PyFind(text, MimeAnchor, 0) IN
    /\ QuotedUrlAt(text, i, j)
    /\ m >= i + 2
    /\ m + Len(MimeAnchor) <= j
    /\ \A k \in (i + 2)..(m - 1) : At(text, k) # ":"
    /\ \A k \in m..(j - 1) : At(text, k) # ","
    /\ \A k \in (i + 2)..(j - 1) : At(text, k) \notin ({"\\"} \cup ControlChars)

----------------------------------------------------------------------------
(* Properties of the request pipeline *)

(* download_and_set_metadata has returned (or was never entered) *)
Returned == {"dm_returned", "fp_returned", "responded"}

PageOk == page_resp.type = "Response" /\ page_resp.status_code = 200

(* extract_and_log_data has run in this request *)
DescriptorBuilt == PageOk /\ pc # "extract"

Is2xx(status) == status >= 200 /\ status <= 299

AudioRejected ==
    /\ audio_resp.type = "Response"
    /\ \/ ~Is2xx(audio_resp.status_code)
       \/ ~ContentTypeOk(audio_resp.content_type)

AudioAccepted ==
    /\ audio_resp.type = "Response"
    /\ audio_resp.status_code = 200
    /\ ContentTypeOk(audio_resp.content_type)

CoverRejected ==
    /\ cover_resp.type = "Response"
    /\ ~Is2xx(cover_resp.status_code)

CoverAccepted ==
    /\ cover_resp.type = "Response"
    /\ cover_resp.status_code = 200

(* C1: once download_and_set_metadata has returned, on whatever path, no    *)
(* temporary file is left on disk.                                           *)
C1_NoTempFileLeft ==
    pc \in Returned => temp_files = {}

(* C2: the descriptor always has the four fields, each resolved on its own: *)
(* a cover URL that does not decode becomes "Unknown" and the other three   *)
(* fields keep their values.                                                 *)
C2_FieldsIndependent ==
    DescriptorBuilt =>
        LET cover == json_loads_quoted(
                        extract_value(response_text, CoverUrlMarker, FieldEnd))
        IN /\ DOMAIN track_data = {"track_name", "artist_name", "cover_url", "track_url"}
           /\ track_data.track_name =
                 extract_value(response_text, TrackNameMarker, FieldEnd)
           /\ track_data.artist_name =
                 extract_value(response_text, ArtistNameMarker, FieldEnd)
           /\ track_data.cover_url = (IF cover.ok THEN cover.value ELSE Unknown)
           /\ track_data.track_url = extract_track_url(response_text)

(* C3: what the pipeline returns is either (None, None) or a buffer with a  *)
(* filename, the buffer read from a saved container that carries the title, *)
(* the artist and the cover of this request.                                 *)
CompleteBuffer(b) ==
    /\ b.type = "BytesIO"
    /\ b.saved
    /\ {"nam", "ART", "covr"} \subseteq DOMAIN b.tags
    /\ b.tags["nam"] = track_data.track_name
    /\ b.tags["ART"] = track_data.artist_name
    /\ b.tags["covr"] = <<MP4Cover(CoverBytes)>>

C3_CompleteOrNothing ==
    pc \in Returned =>
        \/ result = NoneNone
        \/ /\ CompleteBuffer(result[1])
           /\ result[2].type = "str"

C3_Witness ==
    /\ pc = "responded"
    /\ response.type = "file"
    /\ CompleteBuffer(response.body)
    /\ result[2] = Str(Filename(track_data))

(* C6: after a rejected audio response (status outside 2xx, or a content    *)
(* type that is neither audio/mp4 nor video/mp4) or a rejected cover        *)
(* response (status outside 2xx), the pipeline has returned (None, None)    *)
(* and the request's temporary file does not exist.                          *)
C6_RejectedDownloadFails ==
    (pc \in Returned /\ (AudioRejected \/ CoverRejected)) =>
        /\ result = NoneNone
        /\ req \notin temp_files
        /\ disk = None

C6_Witness ==
    /\ pc = "responded"
    /\ AudioAccepted
    /\ CoverRejected
    /\ result = NoneNone
    /\ req \notin temp_files

(* C8: every request is answered by exactly one of: 400 when the url        *)
(* parameter is missing or empty, with no GET issued; 500 when the pipeline *)
(* failed; the file with mimetype audio/mp4, and that only when the         *)
(* pipeline returned a buffer and a filename.                                *)
C8_ResponseMapping ==
    pc = "responded" =>
        /\ response \in {JsonError400, JsonError500}
              \/ (response.type = "file" /\ response.status = 200)
        /\ ~Truthy(url) => (response = JsonError400 /\ log = <<>>)
        /\ (Truthy(url) /\ (errors # <<>> \/ result = NoneNone))
               => response = JsonError500
        /\ response.type = "file" =>
               /\ response.mimetype = AudioMp4
               /\ Truthy(result[1]) /\ Truthy(result[2])
               /\ response.body = result[1]
               /\ response.download_name = result[2].value
               /\ errors = <<>>

C8_Witness ==
    /\ pc = "responded"
    /\ Truthy(url)
    /\ Len(errors) = 1
    /\ errors[1] = "Failed to parse MP4 file"
    /\ response = JsonError500

(* C9: the GETs of a request are issued in the order page, audio, cover,    *)
(* each at most once, and a stage starts only after the stages before it    *)
(* succeeded.                                                                *)
StageOrder == <<"page", "audio", "cover">>

C9_StageOrder ==
    /\ Len(log) <= Len(StageOrder)
    /\ log = SubSeq(StageOrder, 1, Len(log))
    /\ Len(log) >= 2 => (PageOk /\ pc \notin {"fetch_page", "extract"})
    /\ pc \notin {"idle", "fetch_page", "responded", "fp_returned"} => PageOk
    /\ Len(log) >= 3 => AudioAccepted
    /\ req \in temp_files => AudioAccepted
    /\ audio # None => (AudioAccepted /\ CoverAccepted)
    /\ (page_resp.type = "Response" /\ ~Is2xx(page_resp.status_code))
          => log = <<"page">>
    /\ AudioRejected => (Len(log) = 2 /\ req \notin temp_files)
    /\ pc \in {"set_title", "set_artist", "set_cover", "save", "read_back"}
          => (audio # None /\ Len(log) = 3)

C9_Witness ==
    /\ pc = "save"
    /\ log = StageOrder
    /\ AudioAccepted
    /\ CoverAccepted

(* C10: when the descriptor is empty or its track_url is "Unknown", the     *)
(* pipeline returns (None, None) without creating a temporary file or       *)
(* issuing the cover GET, and the request is answered 500.                   *)
NoAudioResource ==
    /\ DescriptorBuilt
    /\ \/ track_data = EmptyDict
       \/ track_data.track_url = Unknown

C10_NoAudioResourceFails ==
    NoAudioResource =>
        /\ pc \in {"get_audio"} \cup Returned
        /\ req \notin temp_files
        /\ Len(log) <= 2
        /\ pc \in Returned => result = NoneNone
        /\ pc = "responded" => response = JsonError500

C10_Witness ==
    /\ pc = "responded"
    /\ DescriptorBuilt
    /\ track_data # EmptyDict
    /\ track_data.track_url = Unknown
    /\ log = <<"page", "audio">>
    /\ response = JsonError500

====
